---------------------------- MODULE Spec2Model ----------------------------
(***************************************************************************)
(* Model of the LOKE http-client package.  The main part is the request    *)
(* pipeline of the fetch-based HTTPClient of src/src/index.ts, lines       *)
(* 229-418, with its error classes of lines 420-511: one client is         *)
(* constructed, then logical request() calls are made one after the other; *)
(* fetch(), the server and the overridable hooks are the environment.      *)
(* Beside it stand the memoized parseUrlTemplate and the RFC 6570 expander *)
(* of src/src/utils/index.ts, the earlier fetch-based client with          *)
(* HTTPResponseError of src/src/index.ts, lines 1-166, and registerMetrics *)
(* of src/src/utils.ts, each with a specification of its own.              *)
(***************************************************************************)
EXTENDS Integers, Sequences, FiniteSets, TLC

VARIABLES
    ctor,          \* "none" | "ok" | "threw": how `new HTTPClient(opts)` ended
    ctorError,     \* the error the constructor threw (NoError otherwise)
    ctorOpts,      \* the opts.baseUrl the constructor was called with
    client,        \* this.baseUrl / this.maxRedirects of the constructed client
    sinkFaulty,    \* whether the metrics instruments may throw (fault injection)
    started,       \* number of request() calls made so far
    pc,            \* "idle" | "fetching" | "resolved" | "rejected" | "done"
    req,           \* arguments of the current request() call, and its url
    fetchOptions,  \* the merged options handed to fetch()
    fetchCalls,    \* fetch() invocations issued by the current call
    attempts,      \* HTTP exchanges the transport made for the current call
    response,      \* the Response fetch() resolved with
    thrown,        \* the value fetch() rejected with
    hookErr,       \* sequence of errors handed to _handlerError by this call
    hookRes,       \* sequence of Results handed to _handlerResponse by this call
    incLog,        \* `code` labels of requestsCount.inc() made by this call
    requestsTotal, \* requestsCount summed over all labels and calls
    errorHook,     \* what the _handlerError in force did when this call called it
    outcome,       \* how the promise returned by request() settled
    trace          \* the calls this request() made so far, in program order

\* The state of the fetch-based HTTPClient of src/src/index.ts, lines 229-418
clientVars ==
    << ctor, ctorError, ctorOpts, client, sinkFaulty, started, pc, req, fetchOptions,
       fetchCalls, attempts, response, thrown, hookErr, hookRes, incLog,
       requestsTotal, errorHook, outcome, trace >>

VARIABLES
    cache,         \* memoize: the Map from template string to cached Expander
    parserCalls,   \* memoize: per template string, times fn(key) was invoked
    returnedFor,   \* memoize: per template string, the Expanders ever returned
    lookups        \* parseUrlTemplate calls made so far

\* The state of the memoized parseUrlTemplate of src/src/utils/index.ts
memoVars == << cache, parserCalls, returnedFor, lookups >>

VARIABLES
    tplIn,         \* expand: the template and the context it is expanded with
    tplOut         \* expand: {} before the call, then { what expand returned }

\* The state of one parseTemplate(template).expand(context) call
tplVars == << tplIn, tplOut >>

VARIABLES
    v2calls,       \* v2 client: request() calls made so far
    v2pc,          \* v2 client: "idle" | "fetching" | "done"
    v2req,         \* v2 client: method, url and merged options of the call
    v2attempts,    \* v2 client: HTTP exchanges the transport made for the call
    v2res,         \* v2 client: the Response fetch() resolved with
    v2thrown,      \* v2 client: the value fetch() rejected with
    v2hookErr,     \* v2 client: values handed to _handlerError by the call
    v2hookRes,     \* v2 client: Responses handed to _handlerResponse by the call
    v2inc,         \* v2 client: `code` labels of requestsCount.inc() of the call
    v2outcome      \* v2 client: how the promise returned by request() settled

\* The state of the fetch-based HTTPClient of src/src/index.ts, lines 81-166
v2Vars == << v2calls, v2pc, v2req, v2attempts, v2res, v2thrown, v2hookErr,
             v2hookRes, v2inc, v2outcome >>

VARIABLES
    adapter,       \* metrics: which module's registerMetrics the process loaded
    registerCalls, \* metrics: per registry, registerMetrics calls made with it
    registerLog,   \* metrics: per registry, the registerMetric calls it received
    registered     \* metrics: per registry, the instruments it holds

\* The state of registerMetrics and of the registries it is called with
metricsVars == << adapter, registerCalls, registerLog, registered >>

VARIABLES
    foIn,          \* fetchOptions: arguments of request() and the client's headers
    foOut          \* fetchOptions: {} before, then { the object handed to fetch() }

\* The state of one construction of fetchOptions by request()
foVars == << foIn, foOut >>

VARIABLES
    smIn,          \* recordMetrics: the `timings` of the result it is called with
    smOut          \* recordMetrics: {} before, then { the stage observations made }

\* The state of one run of the stage loop of recordMetrics
smVars == << smIn, smOut >>

VARIABLES
    ccOpts,        \* concurrent calls: the options the client was constructed with
    ccClient,      \* concurrent calls: the fields of the client (this.*)
    ccCall,        \* concurrent calls: per call, its position and its locals
    ccCount        \* concurrent calls: requestsCount summed over all labels

\* The state of several request() calls in flight on one client
ccVars == << ccOpts, ccClient, ccCall, ccCount >>

\* The state of the parts of request() that are specified on their own
restVars == << foVars, smVars, ccVars >>

\* The state of the other modules of the package
auxVars == << memoVars, tplVars, v2Vars, metricsVars, restVars >>

vars == << clientVars, auxVars >>

---------------------------------------------------------------------------
(* Bounds of the exploration *)

MaxCalls == 2          \* request() calls made on the client
MaxRedirectsOpt == 1   \* largest explicit opts.maxRedirects tried
MaxLookups == 5        \* parseUrlTemplate calls made
MaxVarsPerExpr == 2    \* variables written in one template expression
MaxPrefix == 2         \* largest prefix modifier `:N` written
MaxRegisterCalls == 6  \* registerMetrics calls made, over all registries
MaxConcurrent == 2     \* request() calls in flight at once on one client
MaxHops == 2           \* redirects fetch() follows for one call in flight

(* Program constants *)

DefaultMaxRedirects == 5    \* `maxRedirects = 5` of the constructor
FetchRedirectLimit == 20    \* redirects fetch() follows under redirect: "follow"
SentinelCode == -1          \* `result.statusCode || -1` of recordMetrics

---------------------------------------------------------------------------
(* JavaScript values: every value is a record [t, v] with a string payload *)

Undefined == [t |-> "undefined", v |-> ""]
Null      == [t |-> "null", v |-> ""]
Str(s)    == [t |-> "string", v |-> s]
Obj(s)    == [t |-> "object", v |-> s]
Num(s)    == [t |-> "number", v |-> s]
Bool(s)   == [t |-> "boolean", v |-> s]

\* JavaScript truthiness, as used by `a || b`
Truthy(x) ==
    CASE x.t = "undefined" -> FALSE
      [] x.t = "null"      -> FALSE
      [] x.t = "string"    -> x.v # ""
      [] x.t = "number"    -> x.v # "0"
      [] x.t = "boolean"   -> x.v = "true"
      [] OTHER             -> TRUE

\* String(x), as the Error constructor applies it to its message argument
JsString(x) ==
    CASE x.t = "string"    -> x.v
      [] x.t = "object"    -> "[object Object]"
      [] x.t = "null"      -> "null"
      [] OTHER             -> "undefined"

---------------------------------------------------------------------------
(* URLs *)

NoUrl == [scheme |-> "", host |-> "", path |-> << >>]

\* opts.baseUrl values handed to the constructor
BaseUrls ==
    { [scheme |-> "http",  host |-> "localhost:4000", path |-> << >>],
      [scheme |-> "HTTPS", host |-> "api.example.com", path |-> << "v1" >>],
      [scheme |-> "ftp",   host |-> "localhost", path |-> << >>],
      [scheme |-> "file",  host |-> "", path |-> << "etc" >>] }

\* The WHATWG URL parser lower-cases the scheme
LowerScheme(s) ==
    CASE s = "HTTPS" -> "https"
      [] s = "HTTP"  -> "http"
      [] OTHER       -> s

\* new URL(baseUrl).protocol
Protocol(b) == [name |-> LowerScheme(b.scheme), colon |-> ":"]

supportedProtocols ==
    { [name |-> "http", colon |-> ":"], [name |-> "https", colon |-> ":"] }

\* Path templates: the raw string and its parts (a literal or a {variable})
Lit(s) == [lit |-> s, var |-> ""]
Var(k) == [lit |-> "", var |-> k]

PathTemplates ==
    { [raw |-> "/users/{id}", abs |-> TRUE, parts |-> << Lit("users"), Var("id") >>] }

Params == { [id |-> "123"] }

\* parseUrlTemplate(pathTemplate).expand(params) for simple {var} expressions
Expand(tpl, params) ==
    [abs  |-> tpl.abs,
     segs |-> [i \in 1..Len(tpl.parts) |->
                 IF tpl.parts[i].var = "" THEN tpl.parts[i].lit
                 ELSE params[tpl.parts[i].var]]]

\* new URL(path, baseUrl): an absolute path replaces the base path, a
\* relative one replaces its last segment
ResolveUrl(path, b) ==
    [scheme |-> LowerScheme(b.scheme),
     host   |-> b.host,
     path   |-> IF path.abs \/ Len(b.path) = 0 THEN path.segs
                ELSE SubSeq(b.path, 1, Len(b.path) - 1) \o path.segs]

---------------------------------------------------------------------------
(* Errors: one record shape for every thrown value *)

MkError(cls, message) ==
    [cls |-> cls, name |-> cls, message |-> message,
     statusCode |-> {}, statusMessage |-> "",
     body |-> Undefined, method |-> "", url |-> NoUrl, event |-> "",
     redirectUrls |-> << >>,
     causeKind |-> "none", causeMsg |-> ""]

NoError == MkError("none", "")

WithCause(e, kind, msg) == [e EXCEPT !.causeKind = kind, !.causeMsg = msg]

\* `x instanceof Error`: everything but a thrown non-Error value
IsError(e) == e.cls \notin {"none", "NonError"}

\* class UnsupportedProtocolError (src/src/index.ts 486-488)
UnsupportedProtocolError(message) == MkError("UnsupportedProtocolError", message)

\* class HTTPError: constructor(message, response, body)
HTTPError(message, res, body) ==
    [MkError("HTTPError", message) EXCEPT
        !.statusCode = {res.status}, !.statusMessage = res.statusText,
        !.body = body]

\* class ParseError: constructor(message, statusCode, statusMessage)
ParseError(message, statusCode, statusMessage) ==
    [MkError("ParseError", message) EXCEPT
        !.statusCode = {statusCode}, !.statusMessage = statusMessage]

\* class TimeoutError: constructor(message, event)
TimeoutError(message, event) ==
    [MkError("TimeoutError", message) EXCEPT !.event = event]

\* class RequestError
RequestError(message) == MkError("RequestError", message)

---------------------------------------------------------------------------
(* Responses and the values fetch() rejects with *)

\* What the server sends back in one HTTP exchange
ServerAnswers ==
    { [status |-> st.code, statusText |-> st.text, contentType |-> ct,
       location |-> loc, readable |-> rd, text |-> tx] :
        st \in { [code |-> 200, text |-> "OK"],
                 [code |-> 204, text |-> "No Content"],
                 [code |-> 301, text |-> "Moved Permanently"],
                 [code |-> 404, text |-> "Not Found"] },
        ct \in { "", "application/json; charset=utf-8", "text/html; charset=utf-8" },
        loc \in BOOLEAN, rd \in BOOLEAN,
        tx \in { "", "{\"error\":\"Not Found\"}", "Invalid JSON" } }

\* The answers tried: a Location header only on a 3xx, no body on a 204, a
\* failing body stream once per status and content type
FirstAnswers ==
    { a \in ServerAnswers :
        /\ a.location => a.status = 301
        /\ a.status = 204 => (a.text = "" /\ a.readable)
        /\ ~a.readable => a.text = "" }

\* The answers tried at the target of a redirect: redirect again, or succeed
RedirectTargetAnswers ==
    { a \in FirstAnswers :
        /\ a.readable
        /\ a.contentType = "application/json; charset=utf-8"
        /\ \/ a.status = 301 /\ a.location /\ a.text = ""
           \/ a.status = 200 /\ a.text = "{\"error\":\"Not Found\"}" }

NoResponse ==
    [status |-> 0, statusText |-> "", contentType |-> "", location |-> FALSE,
     bodyNull |-> TRUE, readable |-> TRUE, text |-> ""]

\* The Response fetch() builds: the body is null for a HEAD request and for a
\* null-body status, else a stream
MkResponse(a, method) ==
    LET nullBody == method = "HEAD" \/ a.status \in {204, 205, 304}
    IN  [status |-> a.status, statusText |-> a.statusText,
         contentType |-> a.contentType, location |-> a.location,
         bodyNull |-> nullBody,
         readable |-> IF nullBody THEN TRUE ELSE a.readable,
         text |-> IF nullBody THEN "" ELSE a.text]

\* response.ok
Ok(res) == res.status >= 200 /\ res.status <= 299

\* response.headers.get("content-type")?.includes("application/json")
DeclaresJson(res) == res.contentType \in { "application/json; charset=utf-8" }

\* JSON.parse on the body texts above
JsonParse(text) ==
    CASE text = "{\"error\":\"Not Found\"}" -> [ok |-> TRUE, val |-> Obj(text)]
      [] OTHER -> [ok |-> FALSE, val |-> Undefined]

\* Values fetch() rejects with
FetchFailed(causeMsg) == WithCause(MkError("TypeError", "fetch failed"), "Error", causeMsg)

DnsFailure      == FetchFailed("getaddrinfo ENOTFOUND invalid.url")
ConnRefused     == FetchFailed("connect ECONNREFUSED 127.0.0.1:4001")
SocketHangUp    == FetchFailed("other side closed")
RedirectsExceeded == FetchFailed("redirect count exceeded")
BadRequestInit  == MkError("TypeError", "Request with GET/HEAD method cannot have body")
TimeoutAbort    == [MkError("DOMException", "The operation was aborted due to timeout")
                       EXCEPT !.name = "TimeoutError"]
PlainAbort      == [MkError("DOMException", "This operation was aborted")
                       EXCEPT !.name = "AbortError"]
\* controller.abort(reason): fetch() rejects with the caller's reason
AbortReasonString == MkError("NonError", "cancelled by caller")
AbortReasonError  == WithCause(MkError("Error", "upstream unavailable"),
                               "string", "connect ECONNREFUSED 10.0.0.1:80")

\* String(cause).includes("ENOTFOUND") || ...includes("ECONNREFUSED")
MentionsUnreachable(msg) ==
    msg \in { "getaddrinfo ENOTFOUND invalid.url",
              "connect ECONNREFUSED 127.0.0.1:4001",
              "connect ECONNREFUSED 10.0.0.1:80" }

AllRejections ==
    { DnsFailure, ConnRefused, SocketHangUp, BadRequestInit, TimeoutAbort,
      PlainAbort, AbortReasonString, AbortReasonError }

\* What fetch() can reject with under the given signal
Rejections(signal) ==
    { DnsFailure, ConnRefused, SocketHangUp, BadRequestInit }
      \cup (IF signal = {"timeout"} THEN { TimeoutAbort } ELSE {})
      \cup (IF signal = {"abort"}
            THEN { PlainAbort, AbortReasonString, AbortReasonError } ELSE {})

---------------------------------------------------------------------------
(* Results, and how the promise of request() settles *)

\* interface Result { statusCode, body }; `from` tells who produced the value
MkResult(from, statusCode, body) ==
    [from |-> from, statusCode |-> statusCode, body |-> body]

NoResult == MkResult("none", 0, Undefined)

\* The promise returned by request(): pending, resolved or rejected
NoOutcome == [kind |-> "none", value |-> NoResult, error |-> NoError]

Resolves(v) == [kind |-> "returned", value |-> v, error |-> NoError]
Rejects(e)  == [kind |-> "threw", value |-> NoResult, error |-> e]

---------------------------------------------------------------------------
(* memoize and parseUrlTemplate (src/src/utils/index.ts, lines 193-218) *)

\* The template strings the callers pass
TemplateStrings ==
    { "/users/{id}", "/users{?q,page}", "/files{/path*}", "/tags{;tag}" }

\* `new Map<K, V>()`: no key has a value; an Expander is named by the
\* ordinal of the parseTemplate call that built it
EmptyCache == [t \in TemplateStrings |-> {}]

\* Expanders built so far: each fn(key) call returns a new object
ExpandersBuilt ==
    LET RECURSIVE Sum(_)
        Sum(S) == IF S = {} THEN 0
                  ELSE LET t == CHOOSE x \in S : TRUE
                       IN  parserCalls[t] + Sum(S \ {t})
    IN  Sum(TemplateStrings)

\* A memoize that builds the value before it looks at the cache, and stores
\* what it built
memoizeAlwaysCalls(key) ==
    LET val == ExpandersBuilt + 1
    IN  /\ parserCalls' = [parserCalls EXCEPT ![key] = @ + 1]
        /\ cache' = [cache EXCEPT ![key] = { val }]
        /\ returnedFor' = [returnedFor EXCEPT ![key] = @ \cup { val }]

\* The function memoize(fn) returns, applied to key (lines 196-205)
memoize(key) ==
    IF cache[key] # {}
    THEN /\ returnedFor' = [returnedFor EXCEPT ![key] = @ \cup cache[key]]
         /\ UNCHANGED << cache, parserCalls >>
    ELSE LET val == ExpandersBuilt + 1
         IN  /\ parserCalls' = [parserCalls EXCEPT ![key] = @ + 1]
             /\ cache' = [cache EXCEPT ![key] = { val }]
             /\ returnedFor' = [returnedFor EXCEPT ![key] = @ \cup { val }]

\* parseUrlTemplate(pathTemplate) (lines 216-218)
parseUrlTemplate(pathTemplate) ==
    /\ lookups < MaxLookups
    /\ lookups' = lookups + 1
    /\ memoize(pathTemplate)
    /\ UNCHANGED << clientVars, tplVars, v2Vars, metricsVars, restVars >>

\* The module as loaded: an empty cache
MemoInit ==
    /\ cache = EmptyCache
    /\ parserCalls = [t \in TemplateStrings |-> 0]
    /\ returnedFor = [t \in TemplateStrings |-> {}]
    /\ lookups = 0

---------------------------------------------------------------------------
(* The constructor *)

UnsupportedMessage(b) ==
    CASE b.scheme = "ftp"  -> "Unsupported protocol: ftp://localhost"
      [] b.scheme = "file" -> "Unsupported protocol: file:///etc"
      [] OTHER             -> "Unsupported protocol"

NoClient == [baseUrl |-> NoUrl, maxRedirects |-> 0]

\* opts.maxRedirects: absent ({}) or an explicit number
MaxRedirectsOpts == { {} } \cup { {n} : n \in 0..MaxRedirectsOpt }

\* `const { baseUrl, headers, maxRedirects = 5 } = opts`
MaxRedirectsOf(opt) == IF opt = {} THEN DefaultMaxRedirects ELSE CHOOSE n \in opt : TRUE

\* A constructor whose list of supported protocols also holds "ftp:"
UnsupportedExceptFtp(b) ==
    Protocol(b) \notin (supportedProtocols \cup { [name |-> "ftp", colon |-> ":"] })

\* `!supportedProtocols.includes(url.protocol)`
Unsupported(b) == Protocol(b) \notin supportedProtocols

\* new HTTPClient({ baseUrl, headers, maxRedirects })
Constructor(b, mr) ==
    /\ ctor = "none"
    /\ ctorOpts' = b
    /\ IF Unsupported(b)
       THEN /\ ctor' = "threw"
            /\ ctorError' = UnsupportedProtocolError(UnsupportedMessage(b))
            /\ client' = client
       ELSE /\ ctor' = "ok"
            /\ ctorError' = NoError
            /\ client' = [baseUrl |-> b, maxRedirects |-> MaxRedirectsOf(mr)]
    /\ UNCHANGED << auxVars, sinkFaulty, started, pc, req, fetchOptions, fetchCalls,
                    attempts, response, thrown, hookErr, errorHook, hookRes, incLog,
                    requestsTotal, outcome, trace >>

---------------------------------------------------------------------------
(* request(): from the call to the fetch() it issues *)

Methods == { "GET", "HEAD" }

\* The caller's RequestInit: each key absent ({}) or given
OptionsSet ==
    [ signal : { {}, {"timeout"}, {"abort"} }, redirect : { {}, {"manual"} } ]

NoReq == [method |-> "", pathTemplate |-> "", url |-> NoUrl]

NoOptions == [method |-> "", redirect |-> {}, signal |-> {}]

\* `{ ...defaultOptions, ...options }`: a key the caller gives wins
MergeOptions(defaultOptions, options) ==
    [method   |-> defaultOptions.method,
     redirect |-> IF options.redirect # {} THEN options.redirect
                  ELSE defaultOptions.redirect,
     signal   |-> IF options.signal # {} THEN options.signal
                  ELSE defaultOptions.signal]

Request(method, tpl, params, options) ==
    /\ ctor = "ok"
    /\ pc \in { "idle", "done" }
    /\ started < MaxCalls
    /\ started' = started + 1
    /\ LET url == ResolveUrl(Expand(tpl, params), client.baseUrl)
           defaultOptions == [method |-> method, redirect |-> {"follow"}, signal |-> {}]
       IN  /\ req' = [method |-> method, pathTemplate |-> tpl.raw, url |-> url]
           /\ fetchOptions' = MergeOptions(defaultOptions, options)
    /\ pc' = "fetching"
    /\ fetchCalls' = 1
    /\ attempts' = 0
    /\ response' = NoResponse
    /\ thrown' = NoError
    /\ hookErr' = << >>
    /\ errorHook' = "none"
    /\ hookRes' = << >>
    /\ incLog' = << >>
    /\ outcome' = NoOutcome
    /\ trace' = << "fetch" >>
    /\ lookups' = lookups + 1
    /\ memoize(tpl.raw)
    /\ UNCHANGED << tplVars, v2Vars, metricsVars, restVars, ctor, ctorError, ctorOpts,
                    client, sinkFaulty, requestsTotal >>

---------------------------------------------------------------------------
(* fetch(): the transport, one HTTP exchange per step *)

AnswersAt(n) == IF n = 0 THEN FirstAnswers ELSE RedirectTargetAnswers

\* A redirect that fetch() follows by itself
Followed(a) ==
    /\ fetchOptions.redirect = {"follow"}
    /\ a.status >= 300 /\ a.status <= 399
    /\ a.location

\* The server redirects and fetch() follows
FetchFollowRedirect(a) ==
    /\ pc = "fetching"
    /\ a \in AnswersAt(attempts)
    /\ Followed(a)
    /\ attempts < FetchRedirectLimit
    /\ attempts' = attempts + 1
    /\ UNCHANGED << auxVars, ctor, ctorError, ctorOpts, client, sinkFaulty, started, pc, req,
                    fetchOptions, fetchCalls, response, thrown, hookErr, errorHook,
                    hookRes, incLog, requestsTotal, outcome, trace >>

\* The server redirects once more than fetch() follows
FetchRedirectsExceeded(a) ==
    /\ pc = "fetching"
    /\ a \in AnswersAt(attempts)
    /\ Followed(a)
    /\ attempts = FetchRedirectLimit
    /\ attempts' = attempts + 1
    /\ thrown' = RedirectsExceeded
    /\ pc' = "rejected"
    /\ UNCHANGED << auxVars, ctor, ctorError, ctorOpts, client, sinkFaulty, started, req,
                    fetchOptions, fetchCalls, response, hookErr, errorHook, hookRes,
                    incLog, requestsTotal, outcome, trace >>

\* fetch() resolves with the server's response
FetchResolve(a) ==
    /\ pc = "fetching"
    /\ a \in AnswersAt(attempts)
    /\ ~Followed(a)
    /\ attempts' = attempts + 1
    /\ response' = MkResponse(a, fetchOptions.method)
    /\ pc' = "resolved"
    /\ UNCHANGED << auxVars, ctor, ctorError, ctorOpts, client, sinkFaulty, started, req,
                    fetchOptions, fetchCalls, thrown, hookErr, errorHook, hookRes,
                    incLog, requestsTotal, outcome, trace >>

\* fetch() rejects: network failure, timeout or abort
FetchReject(e) ==
    /\ pc = "fetching"
    /\ e \in Rejections(fetchOptions.signal)
    /\ thrown' = e
    /\ pc' = "rejected"
    /\ UNCHANGED << auxVars, ctor, ctorError, ctorOpts, client, sinkFaulty, started, req,
                    fetchOptions, fetchCalls, attempts, response, hookErr, errorHook,
                    hookRes, incLog, requestsTotal, outcome, trace >>

---------------------------------------------------------------------------
(* request(): from the settled fetch() to the settled call *)

Returned(body) == [threw |-> FALSE, err |-> NoError, val |-> body]
Threw(e)       == [threw |-> TRUE, err |-> e, val |-> Undefined]

\* await response.json()
ReadJson(res) ==
    IF ~res.readable THEN Threw(MkError("TypeError", "terminated"))
    ELSE LET p == JsonParse(res.text)
         IN  IF p.ok THEN Returned(p.val)
             ELSE Threw(MkError("SyntaxError", "Unexpected token in JSON"))

\* await response.text()
ReadText(res) ==
    IF ~res.readable THEN Threw(MkError("TypeError", "terminated"))
    ELSE Returned(Str(res.text))

\* The errorBody of a response that is not ok (lines 281-287)
ErrorBody(res) ==
    IF res.bodyNull THEN Returned(Null)
    ELSE IF DeclaresJson(res) THEN ReadJson(res)
    ELSE ReadText(res)

\* `errorBody || response.statusText || "Request failed"`
ErrorMessage(errorBody, res) ==
    IF Truthy(errorBody) THEN JsString(errorBody)
    ELSE IF res.statusText # "" THEN res.statusText
    ELSE "Request failed"

\* parseResponseBody without the `&& response.body` test
parseResponseBodyAlwaysJson(res) ==
    IF DeclaresJson(res)
    THEN LET r == ReadJson(res)
         IN  IF r.threw
             THEN Threw(ParseError("Failed to parse JSON response",
                                   res.status, res.statusText))
             ELSE r
    ELSE ReadText(res)

\* parseResponseBody(response) (lines 362-379)
parseResponseBody(res) ==
    IF DeclaresJson(res) /\ ~res.bodyNull
    THEN LET r == ReadJson(res)
         IN  IF r.threw
             THEN Threw(ParseError("Failed to parse JSON response",
                                   res.status, res.statusText))
             ELSE r
    ELSE ReadText(res)

\* Lines 280-306: the Result of the response, or the error thrown on the way
TryBody(res) ==
    IF ~Ok(res)
    THEN LET b == ErrorBody(res)
         IN  IF b.threw
             THEN [threw |-> TRUE, err |-> b.err, result |-> NoResult,
                   events |-> << "errorBody" >>]
             ELSE [threw |-> TRUE,
                   err |-> HTTPError(ErrorMessage(b.val, res), res, b.val),
                   result |-> NoResult,
                   events |-> << "errorBody", "new HTTPError" >>]
    ELSE LET b == parseResponseBody(res)
         IN  IF b.threw
             THEN [threw |-> TRUE, err |-> b.err, result |-> NoResult,
                   events |-> << "parseResponseBody" >>]
             ELSE [threw |-> FALSE, err |-> NoError,
                   result |-> MkResult("executor", res.status,
                                       IF b.val = Str("") THEN Undefined ELSE b.val),
                   events |-> << "parseResponseBody" >>]

\* What an instrument does when called
SinkOutcomes == IF sinkFaulty THEN { "ok", "throws" } ELSE { "ok" }

MetricsFailure == MkError("Error", "metrics sink failure")

\* recordMetrics(result, method, pathTemplate) (lines 381-409): the `code`
\* labels requestsCount was incremented with, or the instrument's error, and
\* the calls made on the instruments
recordMetrics(result, sink) ==
    IF sink = "throws"
    THEN [threw |-> TRUE, err |-> MetricsFailure, codes |-> << >>,
          events |-> << "recordMetrics" >>]
    ELSE [threw |-> FALSE, err |-> NoError,
          codes |-> << IF result.statusCode # 0 THEN result.statusCode
                       ELSE SentinelCode >>,
          events |-> << "recordMetrics", "startTimer", "stopTimer",
                        "requestsCount.inc" >>]

\* Lines 324-358: the error handed to _handlerError
Classify(error, method, url) ==
    IF ~IsError(error) THEN MkError("Error", "Unknown error")
    ELSE IF error.cls \in { "HTTPError", "ParseError" } THEN error
    ELSE IF error.cls = "DOMException" /\ error.name = "TimeoutError"
         THEN TimeoutError(error.message, "")
    ELSE IF error.cls = "TypeError" /\ error.causeKind = "Error"
         THEN MkError("Error", error.causeMsg)
    ELSE IF error.causeKind # "none" /\ MentionsUnreachable(error.causeMsg)
         THEN [RequestError(error.message) EXCEPT !.method = method, !.url = url]
    ELSE error

\* What the overridable hooks do when called
ResponseHooks == { "default", "throws", "rejects" }
ErrorHooks    == { "default", "throws", "fallback" }

HookFailure  == MkError("Error", "response hook failed")
DomainError  == MkError("NotFoundError", "no such user")
Fallback     == MkResult("errorHook", 0, Null)

\* _handlerError(err) (lines 415-417), or its override
handlerError(eh, err) ==
    CASE eh = "default"  -> Rejects(err)
      [] eh = "throws"   -> Rejects(DomainError)
      [] eh = "fallback" -> Resolves(Fallback)

\* A catch block that calls the error hook and then throws the classified
\* error itself, whatever the hook did (`return` left out before the call)
CatchBlockRethrows(error, sink, eh, resSoFar, incsSoFar, evSoFar) ==
    LET m == recordMetrics(MkResult("executor", 0, Undefined), sink)
    IN  IF m.threw
        THEN [hookRes |-> resSoFar, hookErr |-> << >>, errorHook |-> "none",
              incs |-> incsSoFar, events |-> evSoFar \o m.events,
              outcome |-> Rejects(m.err)]
        ELSE LET e == Classify(error, req.method, req.url)
             IN  [hookRes |-> resSoFar, hookErr |-> << e >>, errorHook |-> eh,
                  incs |-> incsSoFar \o m.codes,
                  events |-> evSoFar \o m.events \o << "classify", "_handlerError" >>,
                  outcome |-> IF eh = "throws" THEN handlerError(eh, e)
                              ELSE Rejects(e)]

\* The catch block (lines 311-359), entered with what the try block did so far
CatchBlock(error, sink, eh, resSoFar, incsSoFar, evSoFar) ==
    LET m == recordMetrics(MkResult("executor", 0, Undefined), sink)
    IN  IF m.threw
        THEN [hookRes |-> resSoFar, hookErr |-> << >>, errorHook |-> "none",
              incs |-> incsSoFar, events |-> evSoFar \o m.events,
              outcome |-> Rejects(m.err)]
        ELSE LET e == Classify(error, req.method, req.url)
             IN  [hookRes |-> resSoFar, hookErr |-> << e >>, errorHook |-> eh,
                  incs |-> incsSoFar \o m.codes,
                  events |-> evSoFar \o m.events \o << "classify", "_handlerError" >>,
                  outcome |-> handlerError(eh, e)]

\* The try block (lines 275-310) after fetch() resolved
TryBlock(res, sink1, sink2, rh, eh) ==
    LET t == TryBody(res)
    IN  IF t.threw THEN CatchBlock(t.err, sink2, eh, << >>, << >>, t.events)
        ELSE LET m  == recordMetrics(t.result, sink1)
                 ev == t.events \o m.events
             IN  IF m.threw THEN CatchBlock(m.err, sink2, eh, << >>, << >>, ev)
                 ELSE CASE rh = "default" ->
                             [hookRes |-> << t.result >>, hookErr |-> << >>,
                              errorHook |-> "none", incs |-> m.codes,
                              events |-> ev \o << "_handlerResponse" >>,
                              outcome |-> Resolves(t.result)]
                        [] rh = "rejects" ->
                             [hookRes |-> << t.result >>, hookErr |-> << >>,
                              errorHook |-> "none", incs |-> m.codes,
                              events |-> ev \o << "_handlerResponse" >>,
                              outcome |-> Rejects(HookFailure)]
                        [] rh = "throws" ->
                             CatchBlock(HookFailure, sink2, eh, << t.result >>, m.codes,
                                        ev \o << "_handlerResponse" >>)

\* A request() that issues fetch() once more when the call failed for the
\* first time
SettleRetrying(s) ==
    IF s.hookErr # << >> /\ fetchCalls = 1
    THEN /\ fetchCalls' = fetchCalls + 1
         /\ pc' = "fetching"
         /\ incLog' = s.incs
         /\ requestsTotal' = requestsTotal + Len(s.incs)
         /\ UNCHANGED << auxVars, ctor, ctorError, ctorOpts, client, sinkFaulty,
                         started, req, fetchOptions, attempts, response, thrown,
                         hookRes, hookErr, errorHook, outcome, trace >>
    ELSE /\ hookRes' = s.hookRes
         /\ hookErr' = s.hookErr
         /\ errorHook' = s.errorHook
         /\ incLog' = s.incs
         /\ requestsTotal' = requestsTotal + Len(s.incs)
         /\ outcome' = s.outcome
         /\ trace' = trace \o s.events
         /\ pc' = "done"
         /\ UNCHANGED << auxVars, ctor, ctorError, ctorOpts, client, sinkFaulty,
                         started, req, fetchOptions, fetchCalls, attempts,
                         response, thrown >>

Settle(s) ==
    /\ hookRes' = s.hookRes
    /\ hookErr' = s.hookErr
    /\ errorHook' = s.errorHook
    /\ incLog' = s.incs
    /\ requestsTotal' = requestsTotal + Len(s.incs)
    /\ outcome' = s.outcome
    /\ trace' = trace \o s.events
    /\ pc' = "done"
    /\ UNCHANGED << auxVars, ctor, ctorError, ctorOpts, client, sinkFaulty, started, req,
                    fetchOptions, fetchCalls, attempts, response, thrown >>

\* request() resumes after `await fetch(...)` resolved
OnResolved(sink1, sink2, rh, eh) ==
    /\ pc = "resolved"
    /\ sink1 \in SinkOutcomes /\ sink2 \in SinkOutcomes
    /\ Settle(TryBlock(response, sink1, sink2, rh, eh))

\* request() resumes after `await fetch(...)` rejected
OnRejected(sink2, eh) ==
    /\ pc = "rejected"
    /\ sink2 \in SinkOutcomes
    /\ Settle(CatchBlock(thrown, sink2, eh, << >>, << >>, << >>))

---------------------------------------------------------------------------
(* URI templates: parseTemplate and getValues (src/src/utils/index.ts) *)

\* A string is the sequence of its characters; an encoded string is a
\* sequence of characters and percent-encoded triplets

\* encodeURIComponent, then `!'()*` percent-encoded (lines 22-27)
encodeUnreserved(str) ==
    [i \in DOMAIN str |->
        CASE str[i] = " " -> "%20"
          [] str[i] = "/" -> "%2F"
          [] str[i] = "!" -> "%21"
          [] OTHER        -> str[i]]

\* encodeURI, which keeps the reserved characters (lines 8-20)
encodeReserved(str) ==
    [i \in DOMAIN str |->
        CASE str[i] = " " -> "%20"
          [] OTHER        -> str[i]]

\* The values of a context: undefined, null, a string, a list of strings or
\* a map (its entries in insertion order) from strings to strings
CtxUndefined == [t |-> "undefined", s |-> << >>, items |-> << >>]
CtxNull      == [t |-> "null", s |-> << >>, items |-> << >>]
CtxString(s) == [t |-> "string", s |-> s, items |-> << >>]
CtxList(l)   == [t |-> "list", s |-> << >>,
                 items |-> [i \in DOMAIN l |-> [k |-> << >>, v |-> l[i]]]]
CtxMap(m)    == [t |-> "map", s |-> << >>, items |-> m]

\* A modifier as getValues receives it: undefined, "*", or the digits of :N
NoModifier == [kind |-> "none", n |-> 0]
Explode    == [kind |-> "explode", n |-> 0]
Prefix(n)  == [kind |-> "prefix", n |-> n]

\* values.join(separator)
Join(values, separator) ==
    LET RECURSIVE From(_)
        From(i) == IF i > Len(values) THEN << >>
                   ELSE IF i = Len(values) THEN values[i]
                   ELSE values[i] \o separator \o From(i + 1)
    IN  From(1)

\* encodeValue(operator, value, key): key is << >> when not passed (29-42)
encodeValue(operator, value, key) ==
    LET encodedValue == IF operator \in { "+", "#" } THEN encodeReserved(value)
                        ELSE encodeUnreserved(value)
    IN  IF key # << >> THEN encodeUnreserved(key) \o << "=" >> \o encodedValue
        ELSE encodedValue

\* isDefined(value) (lines 44-46)
isDefined(value) == value.t \notin { "undefined", "null" }

\* isKeyOperator(operator) (lines 48-50)
isKeyOperator(operator) == operator \in { ";", "&", "?" }

\* The [subKey, subValue] entries of a map, flattened to key, value, key, ...
KeysAndValues(operator, items) ==
    [i \in 1..(2 * Len(items)) |->
        IF i % 2 = 1 THEN encodeUnreserved(items[(i + 1) \div 2].k)
        ELSE encodeValue(operator, items[i \div 2].v, << >>)]

\* The branch for undefined, null and "" with the isDefined test of line
\* 131 left out: `;` emits the bare key for undefined and null too
emptyValuesBareKeyAlways(value, operator, key) ==
    IF operator = ";" THEN << encodeUnreserved(key) >>
    ELSE IF value = CtxString(<< >>) /\ operator \in { "&", "?" }
         THEN << encodeUnreserved(key) \o << "=" >> >>
    ELSE IF value = CtxString(<< >>) THEN << << >> >>
    ELSE << >>

\* getValues for a value that is undefined, null or "" (lines 130-138)
emptyValues(value, operator, key) ==
    IF operator = ";" /\ isDefined(value) THEN << encodeUnreserved(key) >>
    ELSE IF value = CtxString(<< >>) /\ operator \in { "&", "?" }
         THEN << encodeUnreserved(key) \o << "=" >> >>
    ELSE IF value = CtxString(<< >>) THEN << << >> >>
    ELSE << >>

\* getValues(context, operator, key, modifier) (lines 52-140): the strings
\* one variable contributes
getValues(context, operator, key, modifier) ==
    LET value == context[key]
        keyIfKeyOperator == IF isKeyOperator(operator) THEN key ELSE << >>
    IN  IF isDefined(value) /\ value # CtxString(<< >>)
        THEN IF value.t = "string"
             THEN LET stringValue ==
                        IF modifier.kind = "prefix"
                        THEN SubSeq(value.s, 1,
                                    IF modifier.n < Len(value.s) THEN modifier.n
                                    ELSE Len(value.s))
                        ELSE value.s
                  IN  << encodeValue(operator, stringValue, keyIfKeyOperator) >>
             ELSE IF modifier.kind = "explode"
             THEN IF value.t = "list"
                  THEN [i \in DOMAIN value.items |->
                          encodeValue(operator, value.items[i].v, keyIfKeyOperator)]
                  ELSE [i \in DOMAIN value.items |->
                          encodeValue(operator, value.items[i].v, value.items[i].k)]
             ELSE LET tmp == IF value.t = "list"
                             THEN [i \in DOMAIN value.items |->
                                     encodeValue(operator, value.items[i].v, << >>)]
                             ELSE KeysAndValues(operator, value.items)
                  IN  IF isKeyOperator(operator)
                      THEN << encodeUnreserved(key) \o << "=" >>
                                \o Join(tmp, << "," >>) >>
                      ELSE IF Len(tmp) > 0 THEN << Join(tmp, << "," >>) >>
                      ELSE << >>
        ELSE emptyValues(value, operator, key)

\* The operators parseTemplate knows (line 143); "" stands for none
operators == { "+", "#", ".", "/", ";", "?", "&" }

\* /([^:*]*)(?::(\d+)|\*)?/.exec(variable): group 1 is the name, group 2
\* the digits of a prefix modifier; `*` is matched outside any group
MatchVariable(variable) ==
    [name |-> variable.name,
     modifier |-> IF variable.modifier.kind = "prefix" THEN variable.modifier
                  ELSE NoModifier]

\* The values of all variables of an expression, in order (lines 160-172)
ValuesOf(context, operator, variables) ==
    LET RECURSIVE From(_)
        From(i) ==
            IF i > Len(variables) THEN << >>
            ELSE LET match == MatchVariable(variables[i])
                 IN  getValues(context, operator, match.name, match.modifier)
                       \o From(i + 1)
    IN  From(1)

\* The replacement of one {expression} (lines 150-185): the values and the
\* text they are joined to
expandExpression(operator, variables, context) ==
    LET values == ValuesOf(context, operator, variables)
        separator == IF operator \in { ";", "&", "?" } THEN operator
                     ELSE IF operator = "#" THEN "#"
                     ELSE ","
    IN  [values |-> values,
         text |-> (IF Len(values) > 0 /\ operator # "" THEN << operator >>
                   ELSE << >>) \o Join(values, << separator >>)]

\* parseTemplate(template).expand(context) for a template made of a literal
\* and one expression (lines 145-189)
expand(template, context) ==
    LET e == expandExpression(template.operator, template.variables, context)
    IN  [values |-> e.values, expression |-> e.text,
         text |-> encodeReserved(template.literal) \o e.text]

\* Variable names, and the values a context gives them
VarNames == { << "x" >>, << "y" >> }

CtxValues ==
    { CtxUndefined, CtxNull, CtxString(<< >>), CtxString(<< "a", "/", "b" >>),
      CtxList(<< >>), CtxList(<< << "a" >>, << "b", " " >> >>),
      CtxMap(<< [k |-> << "k" >>, v |-> << "a" >>],
                [k |-> << "m" >>, v |-> << "!" >>] >>) }

Contexts == [VarNames -> CtxValues]

Modifiers == { NoModifier, Explode } \cup { Prefix(n) : n \in 1..MaxPrefix }

WrittenVariables == [name : VarNames, modifier : Modifiers]

Templates ==
    [literal : { << >>, << "/", "u", " " >> },
     operator : operators \cup { "" },
     variables : UNION { [1..n -> WrittenVariables] : n \in 1..MaxVarsPerExpr }]

\* parseTemplate(template).expand(context)
ExpandTemplate ==
    /\ tplOut = {}
    /\ tplIn.template \in Templates
    /\ tplOut' = { expand(tplIn.template, tplIn.context) }
    /\ UNCHANGED << clientVars, memoVars, v2Vars, metricsVars, restVars, tplIn >>

NoTemplate == [literal |-> << >>, operator |-> "", variables |-> << >>]

\* No expansion under way
TplIdle ==
    /\ tplIn = [template |-> NoTemplate, context |-> [n \in VarNames |-> CtxUndefined]]
    /\ tplOut = {}

---------------------------------------------------------------------------
(* The fetch-based client with HTTPResponseError (src/src/index.ts, 1-166) *)

\* A value handed to _handlerError: an HTTPResponseError built by request(),
\* or the very value fetch() rejected with
HTTPResponseError(message, res) ==
    [kind |-> "HTTPResponseError", message |-> message,
     status |-> { res.status }, response |-> res, value |-> NoError]

AsThrown(e) ==
    [kind |-> "thrown", message |-> e.message, status |-> {},
     response |-> NoResponse, value |-> e]

NoV2Error ==
    [kind |-> "none", message |-> "", status |-> {}, response |-> NoResponse,
     value |-> NoError]

V2NoOutcome == [kind |-> "none", value |-> Undefined, error |-> NoV2Error]
V2Resolves(v) == [kind |-> "returned", value |-> v, error |-> NoV2Error]
V2Rejects(e) == [kind |-> "threw", value |-> Undefined, error |-> e]

\* new HTTPClient({ baseUrl }) of the README: the constructor only stores it
V2BaseUrl == [scheme |-> "https", host |-> "example.com", path |-> << >>]

V2NoReq == [method |-> "", url |-> NoUrl, redirect |-> {}, signal |-> {}]

\* recordDone(res) (lines 113-122): the `code` label counted
recordDone(status) == << status >>

\* _handlerResponse(res) (lines 153-161): the body as JSON or as text
V2handlerResponse(res) ==
    LET r == IF DeclaresJson(res) THEN ReadJson(res) ELSE ReadText(res)
    IN  IF r.threw THEN V2Rejects(AsThrown(r.err)) ELSE V2Resolves(r.val)

\* _handlerError(err) (lines 163-165)
V2handlerError(err) == V2Rejects(err)

\* A request() that takes only statuses from 400 as failures
AfterFetchFrom400(res) ==
    IF res.status >= 400
    THEN [hookErr |-> << HTTPResponseError(res.statusText, res) >>,
          hookRes |-> << >>, inc |-> recordDone(res.status),
          outcome |-> V2handlerError(HTTPResponseError(res.statusText, res))]
    ELSE [hookErr |-> << >>, hookRes |-> << res >>,
          inc |-> recordDone(res.status), outcome |-> V2handlerResponse(res)]

\* request() after fetch() resolved (lines 141-150)
AfterFetch(res) ==
    IF ~Ok(res)
    THEN [hookErr |-> << HTTPResponseError(res.statusText, res) >>,
          hookRes |-> << >>, inc |-> recordDone(res.status),
          outcome |-> V2handlerError(HTTPResponseError(res.statusText, res))]
    ELSE [hookErr |-> << >>, hookRes |-> << res >>,
          inc |-> recordDone(res.status), outcome |-> V2handlerResponse(res)]

\* request() after fetch() rejected (lines 136-139)
AfterFetchThrew(err) ==
    [hookErr |-> << AsThrown(err) >>, hookRes |-> << >>,
     inc |-> recordDone(SentinelCode), outcome |-> V2handlerError(AsThrown(err))]

\* request(method, pathTemplate, params, body, options) up to fetch()
\* (lines 101-135)
V2Request(method, tpl, params, options) ==
    /\ v2pc \in { "idle", "done" }
    /\ v2calls < MaxCalls
    /\ v2calls' = v2calls + 1
    /\ lookups' = lookups + 1
    /\ memoize(tpl.raw)
    /\ v2req' = [method |-> method,
                 url |-> ResolveUrl(Expand(tpl, params), V2BaseUrl),
                 redirect |-> IF options.redirect # {} THEN options.redirect
                              ELSE { "follow" },
                 signal |-> options.signal]
    /\ v2pc' = "fetching"
    /\ v2attempts' = 0
    /\ v2res' = NoResponse
    /\ v2thrown' = NoError
    /\ v2hookErr' = << >>
    /\ v2hookRes' = << >>
    /\ v2inc' = << >>
    /\ v2outcome' = V2NoOutcome
    /\ UNCHANGED << clientVars, tplVars, metricsVars, restVars >>

\* A redirect that fetch() follows by itself
V2Followed(a) ==
    /\ v2req.redirect = { "follow" }
    /\ a.status >= 300 /\ a.status <= 399
    /\ a.location

\* The server redirects and fetch() follows
V2FetchFollowRedirect(a) ==
    /\ v2pc = "fetching"
    /\ a \in AnswersAt(v2attempts)
    /\ V2Followed(a)
    /\ v2attempts < FetchRedirectLimit
    /\ v2attempts' = v2attempts + 1
    /\ UNCHANGED << clientVars, memoVars, tplVars, metricsVars, restVars, v2calls, v2pc, v2req, v2res,
                    v2thrown, v2hookErr, v2hookRes, v2inc, v2outcome >>

V2Settle(s) ==
    /\ v2hookErr' = s.hookErr
    /\ v2hookRes' = s.hookRes
    /\ v2inc' = s.inc
    /\ v2outcome' = s.outcome
    /\ v2pc' = "done"
    /\ v2attempts' = v2attempts + 1
    /\ UNCHANGED << clientVars, memoVars, tplVars, metricsVars, restVars, v2calls, v2req >>

\* The server redirects once more than fetch() follows: fetch() rejects and
\* request() goes through its catch block
V2FetchRedirectsExceeded(a) ==
    /\ v2pc = "fetching"
    /\ a \in AnswersAt(v2attempts)
    /\ V2Followed(a)
    /\ v2attempts = FetchRedirectLimit
    /\ v2thrown' = RedirectsExceeded
    /\ v2res' = v2res
    /\ V2Settle(AfterFetchThrew(RedirectsExceeded))

\* fetch() resolves and request() runs to its end
V2FetchResolve(a) ==
    /\ v2pc = "fetching"
    /\ a \in AnswersAt(v2attempts)
    /\ ~V2Followed(a)
    /\ v2res' = MkResponse(a, v2req.method)
    /\ v2thrown' = v2thrown
    /\ V2Settle(AfterFetch(MkResponse(a, v2req.method)))

\* fetch() rejects and request() goes through its catch block
V2FetchReject(e) ==
    /\ v2pc = "fetching"
    /\ e \in Rejections(v2req.signal)
    /\ v2thrown' = e
    /\ v2res' = v2res
    /\ V2Settle(AfterFetchThrew(e))

\* The v2 client constructed, no call made
V2Init ==
    /\ v2calls = 0
    /\ v2pc = "idle"
    /\ v2req = V2NoReq
    /\ v2attempts = 0
    /\ v2res = NoResponse
    /\ v2thrown = NoError
    /\ v2hookErr = << >>
    /\ v2hookRes = << >>
    /\ v2inc = << >>
    /\ v2outcome = V2NoOutcome

---------------------------------------------------------------------------
(* registerMetrics (src/src/utils.ts, 57-82, and src/src/index.ts, 16-37) *)

\* The instruments, by metric name
requestsCount == "http_client_requests_total"
requestDuration == "http_client_request_duration_seconds"
requestStageDuration == "http_client_request_stage_duration_seconds"

\* The registries the application passes
Registries == { "register", "custom", "test" }

\* The modules that export registerMetrics: the metrics module with three
\* instruments, the fetch-based client with HTTPResponseError with two
Adapters == { "metrics", "v2" }

\* The registerMetric calls one registerMetrics call issues, in order
Registrations(a) ==
    IF a = "metrics" THEN << requestsCount, requestDuration, requestStageDuration >>
    ELSE << requestsCount, requestDuration >>

\* registerMetrics calls made so far
SumOfCalls(calls) ==
    LET RECURSIVE Sum(_)
        Sum(S) == IF S = {} THEN 0
                  ELSE LET r == CHOOSE x \in S : TRUE
                       IN  calls[r] + Sum(S \ {r})
    IN  Sum(Registries)

\* A registerMetrics that registers only what the registry does not hold
registerMetricsDeduplicated(registry) ==
    /\ SumOfCalls(registerCalls) < MaxRegisterCalls
    /\ registerCalls' = [registerCalls EXCEPT ![registry] = @ + 1]
    /\ registerLog' = [registerLog EXCEPT ![registry] =
                          @ \o SelectSeq(Registrations(adapter),
                                         LAMBDA name : name \notin registered[registry])]
    /\ registered' = [registered EXCEPT ![registry] =
                          @ \cup { Registrations(adapter)[i] :
                                     i \in DOMAIN Registrations(adapter) }]
    /\ UNCHANGED << clientVars, memoVars, tplVars, v2Vars, restVars, adapter >>

\* registerMetrics(registry): one registry.registerMetric(instrument) per
\* instrument; a prom-client registry accepts the instrument it already
\* holds under that name
registerMetrics(registry) ==
    /\ SumOfCalls(registerCalls) < MaxRegisterCalls
    /\ registerCalls' = [registerCalls EXCEPT ![registry] = @ + 1]
    /\ registerLog' = [registerLog EXCEPT ![registry] = @ \o Registrations(adapter)]
    /\ registered' = [registered EXCEPT ![registry] =
                          @ \cup { Registrations(adapter)[i] :
                                     i \in DOMAIN Registrations(adapter) }]
    /\ UNCHANGED << clientVars, memoVars, tplVars, v2Vars, restVars, adapter >>

\* No registerMetrics call made
MetricsIdle ==
    /\ registerCalls = [r \in Registries |-> 0]
    /\ registerLog = [r \in Registries |-> << >>]
    /\ registered = [r \in Registries |-> {}]

---------------------------------------------------------------------------
(* request(): the options handed to fetch() (src/src/index.ts, 263-273) *)

\* JSON.stringify(value) for the body values below
JsonStringify(value) ==
    CASE value.t = "null"    -> "null"
      [] value.t = "string"  -> IF value.v = "" THEN "\"\"" ELSE "\"hello\""
      [] value.t = "object"  -> "{\"id\":\"123\"}"
      [] OTHER               -> value.v

\* The `body` argument of request(): not given, or any JSON value
Bodies ==
    { Undefined, Null, Num("0"), Num("42"), Bool("false"), Bool("true"),
      Str(""), Str("hello"), Obj("{\"id\":\"123\"}") }

\* method.toUpperCase()
ToUpperCase(method) ==
    CASE method = "post" -> "POST"
      [] method = "get"  -> "GET"
      [] OTHER           -> method

\* A headers object: per header name no entry ({}) or its value
HeaderNames == { "Content-Type", "Authorization", "X-Trace" }

NoHeaders == [h \in HeaderNames |-> {}]

\* { ...a, ...b } on two headers objects: b's entries win, key by key
Spread(a, b) == [h \in HeaderNames |-> IF b[h] # {} THEN b[h] ELSE a[h]]

\* opts.headers of the constructor
ClientHeaders ==
    { NoHeaders,
      [NoHeaders EXCEPT !["Authorization"] = { "Bearer t" }],
      [NoHeaders EXCEPT !["Authorization"] = { "Bearer t" },
                        !["Content-Type"] = { "text/plain" }] }

\* The `options` argument of request(): each key absent ({}) or given
CallerOptions ==
    [headers : { {} } \cup
               { { [NoHeaders EXCEPT !["X-Trace"] = { "1" }] },
                 { [NoHeaders EXCEPT !["Authorization"] = { "Basic u" },
                                     !["X-Trace"] = { "1" }] } },
     redirect : { {}, { "manual" } }]

\* defaultOptions (lines 263-271)
DefaultOptions(method, headers, body) ==
    [method   |-> ToUpperCase(method),
     headers  |-> Spread([NoHeaders EXCEPT !["Content-Type"] = { "application/json" }],
                         headers),
     body     |-> IF Truthy(body) THEN { JsonStringify(body) } ELSE {},
     redirect |-> { "follow" }]

\* `{ ...defaultOptions, ...options }` (line 273): a key of options replaces
\* the key of defaultOptions as a whole
FetchOptions(defaultOptions, options) ==
    [method   |-> defaultOptions.method,
     headers  |-> IF options.headers # {} THEN CHOOSE h \in options.headers : TRUE
                  ELSE defaultOptions.headers,
     body     |-> defaultOptions.body,
     redirect |-> IF options.redirect # {} THEN options.redirect
                  ELSE defaultOptions.redirect]

FoInputs ==
    [method : { "GET", "post", "POST" }, headers : ClientHeaders, body : Bodies,
     options : CallerOptions]

NoFoInput ==
    [method |-> "", headers |-> NoHeaders, body |-> Undefined,
     options |-> [headers |-> {}, redirect |-> {}]]

\* request() from its defaultOptions to the fetchOptions it calls fetch() with
BuildFetchOptions ==
    /\ foOut = {}
    /\ foIn \in FoInputs
    /\ foOut' = { FetchOptions(DefaultOptions(foIn.method, foIn.headers, foIn.body),
                               foIn.options) }
    /\ UNCHANGED << clientVars, memoVars, tplVars, v2Vars, metricsVars, foIn, smVars, ccVars >>

\* No fetchOptions under construction
FoIdle == foIn = NoFoInput /\ foOut = {}

---------------------------------------------------------------------------
(* recordMetrics: the stage loop (src/src/index.ts, 389-401) *)

\* The keys a timings.phases object may hold
Stages == { "dns", "firstByte", "total" }

\* A value under a key of timings.phases: no such key, or a JavaScript value
\* with its typeof and, for a number, its milliseconds
PhaseValue(type, ms) == [typeof |-> type, ms |-> ms]

NoEntry == PhaseValue("absent", 0)

PhaseValues ==
    { NoEntry, PhaseValue("undefined", 0), PhaseValue("string", 0),
      PhaseValue("number", 0), PhaseValue("number", 250),
      PhaseValue("number", 1500) }

\* result.timings: undefined, without phases, or with a phases object
NoTimings == [given |-> FALSE, phases |-> {}]

Timings ==
    { NoTimings, [given |-> TRUE, phases |-> {}] }
        \cup { [given |-> TRUE, phases |-> { ph }] : ph \in [Stages -> PhaseValues] }

\* value / 1000, as the fraction it is
MsPerSecond == 1000

Seconds(value) == [num |-> value, den |-> MsPerSecond]

\* A loop that observes the value as it is, in milliseconds
StageObservationsInMs(timings) ==
    IF ~timings.given \/ timings.phases = {} THEN {}
    ELSE LET phases == CHOOSE ph \in timings.phases : TRUE
         IN  { [stage |-> stage, seconds |-> [num |-> phases[stage].ms, den |-> 1]] :
                   stage \in { st \in Stages : /\ phases[st] # NoEntry
                                                /\ st # "total"
                                                /\ phases[st].typeof = "number" } }

\* Lines 389-401: the requestStageDuration.observe() calls of one recordMetrics
StageObservations(timings) ==
    IF ~timings.given \/ timings.phases = {} THEN {}
    ELSE LET phases == CHOOSE ph \in timings.phases : TRUE
         IN  { [stage |-> stage, seconds |-> Seconds(phases[stage].ms)] :
                   stage \in { st \in Stages : /\ phases[st] # NoEntry
                                                /\ st # "total"
                                                /\ phases[st].typeof = "number" } }

\* recordMetrics from its entry to the end of the stage loop
ObserveStages ==
    /\ smOut = {}
    /\ smIn \in Timings
    /\ smOut' = { StageObservations(smIn) }
    /\ UNCHANGED << clientVars, memoVars, tplVars, v2Vars, metricsVars, foVars, smIn, ccVars >>

\* No stage loop running
SmIdle == smIn = NoTimings /\ smOut = {}

---------------------------------------------------------------------------
(* Several request() calls in flight on one client (src/src/index.ts, 229-409).
   A call runs from its start to `await fetch(...)` in one step, and from the
   settlement of fetch() to its end in another; between the two, the steps of
   other calls may run. *)

Slots == 1..MaxConcurrent

CcOptions ==
    [baseUrl : { b \in BaseUrls : ~Unsupported(b) },
     headers : ClientHeaders,
     maxRedirects : MaxRedirectsOpts]

\* The constructor (lines 234-249) on supported options
HTTPClientOf(opts) ==
    [baseUrl |-> opts.baseUrl, headers |-> opts.headers,
     maxRedirects |-> MaxRedirectsOf(opts.maxRedirects)]

CcTemplates == { "/users/{id}", "/users{?q,page}" }

NoCall ==
    [pc |-> "idle", pathTemplate |-> "", base |-> NoUrl, headers |-> NoHeaders,
     hops |-> 0, label |-> NoUrl]

\* request() up to `await fetch(url.toString(), fetchOptions)` (lines 258-276)
CcRequest(i, pathTemplate) ==
    /\ ccCall[i].pc = "idle"
    /\ ccCall' = [ccCall EXCEPT ![i] =
                     [pc |-> "fetching", pathTemplate |-> pathTemplate,
                      base |-> ccClient.baseUrl,
                      headers |-> DefaultOptions("GET", ccClient.headers,
                                                 Undefined).headers,
                      hops |-> 0, label |-> NoUrl]]
    /\ lookups' = lookups + 1
    /\ memoize(pathTemplate)
    /\ UNCHANGED << clientVars, tplVars, v2Vars, metricsVars, foVars, smVars, ccOpts,
                    ccClient, ccCount >>

\* A fetch() that keeps its count of followed redirects on the client
CcFollowRedirectOnClientBudget(i) ==
    /\ ccCall[i].pc = "fetching"
    /\ ccCall[i].hops < MaxHops
    /\ ccClient.maxRedirects > 0
    /\ ccCall' = [ccCall EXCEPT ![i].hops = @ + 1]
    /\ ccClient' = [ccClient EXCEPT !.maxRedirects = @ - 1]
    /\ UNCHANGED << clientVars, memoVars, tplVars, v2Vars, metricsVars, foVars, smVars,
                    ccOpts, ccCount >>

\* fetch() follows a redirect of call i: the count is fetch()'s own, per call
CcFollowRedirect(i) ==
    /\ ccCall[i].pc = "fetching"
    /\ ccCall[i].hops < MaxHops
    /\ ccCall' = [ccCall EXCEPT ![i].hops = @ + 1]
    /\ UNCHANGED << clientVars, memoVars, tplVars, v2Vars, metricsVars, foVars, smVars,
                    ccOpts, ccClient, ccCount >>

\* fetch() of call i settles
CcFetchSettles(i) ==
    /\ ccCall[i].pc = "fetching"
    /\ ccCall' = [ccCall EXCEPT ![i].pc = "settled"]
    /\ UNCHANGED << clientVars, memoVars, tplVars, v2Vars, metricsVars, foVars, smVars,
                    ccOpts, ccClient, ccCount >>

\* request() from the settlement of fetch() to its end: recordMetrics labels
\* the instruments with this.baseUrl (lines 387, 403-408)
CcRecordMetrics(i) ==
    /\ ccCall[i].pc = "settled"
    /\ ccCall' = [ccCall EXCEPT ![i].pc = "done", ![i].label = ccClient.baseUrl]
    /\ ccCount' = ccCount + 1
    /\ UNCHANGED << clientVars, memoVars, tplVars, v2Vars, metricsVars, foVars, smVars,
                    ccOpts, ccClient >>

NoCcOptions == [baseUrl |-> NoUrl, headers |-> NoHeaders, maxRedirects |-> {}]

\* No client with calls in flight
CcIdle ==
    /\ ccOpts = NoCcOptions
    /\ ccClient = [baseUrl |-> NoUrl, headers |-> NoHeaders, maxRedirects |-> 0]
    /\ ccCall = [i \in Slots |-> NoCall]
    /\ ccCount = 0

\* The parts of request() specified on their own, not running
RestIdle == FoIdle /\ SmIdle /\ CcIdle

---------------------------------------------------------------------------
(* Specifications *)

InitCommon ==
    /\ ctor = "none"
    /\ ctorError = NoError
    /\ ctorOpts = NoUrl
    /\ client = NoClient
    /\ started = 0
    /\ pc = "idle"
    /\ req = NoReq
    /\ fetchOptions = NoOptions
    /\ fetchCalls = 0
    /\ attempts = 0
    /\ response = NoResponse
    /\ thrown = NoError
    /\ hookErr = << >>
    /\ errorHook = "none"
    /\ hookRes = << >>
    /\ incLog = << >>
    /\ requestsTotal = 0
    /\ outcome = NoOutcome
    /\ trace = << >>

\* The other modules as loaded
AuxInit ==
    MemoInit /\ TplIdle /\ V2Init /\ MetricsIdle /\ adapter = "metrics" /\ RestIdle

\* The client with the prom-client instruments, which do not throw
Init == InitCommon /\ sinkFaulty = FALSE /\ AuxInit

\* The client with instruments that may throw
InitFaultySink == InitCommon /\ sinkFaulty = TRUE /\ AuxInit

Next ==
    \/ \E b \in BaseUrls, mr \in MaxRedirectsOpts : Constructor(b, mr)
    \/ \E m \in Methods, tpl \in PathTemplates, p \in Params, o \in OptionsSet :
          Request(m, tpl, p, o)
    \/ \E a \in ServerAnswers : FetchFollowRedirect(a)
    \/ \E a \in ServerAnswers : FetchRedirectsExceeded(a)
    \/ \E a \in ServerAnswers : FetchResolve(a)
    \/ \E e \in AllRejections : FetchReject(e)
    \/ \E s1 \in { "ok", "throws" }, s2 \in { "ok", "throws" },
          rh \in ResponseHooks, eh \in ErrorHooks : OnResolved(s1, s2, rh, eh)
    \/ \E s2 \in { "ok", "throws" }, eh \in ErrorHooks : OnRejected(s2, eh)

Spec == Init /\ [][Next]_vars

SpecFaultySink == InitFaultySink /\ [][Next]_vars

\* parseUrlTemplate alone, called with any sequence of template strings
InitMemoize == InitCommon /\ sinkFaulty = FALSE /\ AuxInit

NextMemoize == \E t \in TemplateStrings : parseUrlTemplate(t)

SpecMemoize == InitMemoize /\ [][NextMemoize]_vars

\* expand alone, for every template and context of the bounded sets
InitTemplate ==
    /\ InitCommon /\ sinkFaulty = FALSE /\ MemoInit /\ V2Init
    /\ MetricsIdle /\ adapter = "metrics" /\ RestIdle
    /\ tplIn \in [template : Templates, context : Contexts]
    /\ tplOut = {}

NextTemplate == ExpandTemplate

SpecTemplate == InitTemplate /\ [][NextTemplate]_vars

\* The fetch-based client with HTTPResponseError, its calls made in turn
InitV2 == InitCommon /\ sinkFaulty = FALSE /\ AuxInit

NextV2 ==
    \/ \E m \in Methods, tpl \in PathTemplates, p \in Params, o \in OptionsSet :
          V2Request(m, tpl, p, o)
    \/ \E a \in ServerAnswers : V2FetchFollowRedirect(a)
    \/ \E a \in ServerAnswers : V2FetchRedirectsExceeded(a)
    \/ \E a \in ServerAnswers : V2FetchResolve(a)
    \/ \E e \in AllRejections : V2FetchReject(e)

SpecV2 == InitV2 /\ [][NextV2]_vars

\* registerMetrics alone, of either module, called with any registries
InitMetrics ==
    /\ InitCommon /\ sinkFaulty = FALSE /\ MemoInit /\ TplIdle /\ V2Init
    /\ MetricsIdle /\ RestIdle
    /\ adapter \in Adapters

NextMetrics == \E r \in Registries : registerMetrics(r)

SpecMetrics == InitMetrics /\ [][NextMetrics]_vars

\* The construction of fetchOptions alone, for every input of the bounded sets
InitFetchOptions ==
    /\ InitCommon /\ sinkFaulty = FALSE
    /\ MemoInit /\ TplIdle /\ V2Init /\ MetricsIdle /\ adapter = "metrics"
    /\ foIn \in FoInputs
    /\ foOut = {}
    /\ SmIdle /\ CcIdle

NextFetchOptions == BuildFetchOptions

SpecFetchOptions == InitFetchOptions /\ [][NextFetchOptions]_vars

\* The stage loop of recordMetrics alone, for every timings of the bounded set
InitStageMetrics ==
    /\ InitCommon /\ sinkFaulty = FALSE
    /\ MemoInit /\ TplIdle /\ V2Init /\ MetricsIdle /\ adapter = "metrics"
    /\ FoIdle /\ CcIdle
    /\ smIn \in Timings
    /\ smOut = {}

NextStageMetrics == ObserveStages

SpecStageMetrics == InitStageMetrics /\ [][NextStageMetrics]_vars

\* One constructed client and up to MaxConcurrent calls in flight on it
InitConcurrent ==
    /\ InitCommon /\ sinkFaulty = FALSE
    /\ MemoInit /\ TplIdle /\ V2Init /\ MetricsIdle /\ adapter = "metrics"
    /\ FoIdle /\ SmIdle
    /\ ccOpts \in CcOptions
    /\ ccClient = HTTPClientOf(ccOpts)
    /\ ccCall = [i \in Slots |-> NoCall]
    /\ ccCount = 0

NextConcurrent ==
    \/ \E i \in Slots, tpl \in CcTemplates : CcRequest(i, tpl)
    \/ \E i \in Slots : CcFollowRedirect(i)
    \/ \E i \in Slots : CcFetchSettles(i)
    \/ \E i \in Slots : CcRecordMetrics(i)

SpecConcurrent == InitConcurrent /\ [][NextConcurrent]_vars

---------------------------------------------------------------------------
(* Properties *)

HttpSchemes == { "http", "https", "HTTP", "HTTPS" }

\* C1: constructing a client whose baseUrl scheme is not http or https
\* fails with UnsupportedProtocolError and no request is ever started or
\* sent for it; constructing with http or https succeeds.
C1_UnsupportedProtocolRejected ==
    ctor # "none" =>
        IF ctorOpts.scheme \in HttpSchemes
        THEN ctor = "ok" /\ ctorError = NoError /\ client.baseUrl = ctorOpts
        ELSE /\ ctor = "threw"
             /\ ctorError.cls = "UnsupportedProtocolError"
             /\ client = NoClient
             /\ started = 0 /\ fetchCalls = 0 /\ attempts = 0 /\ pc = "idle"

\* C1 witness: the constructor was called with an ftp URL and threw
C1_Witness == ctor = "threw" /\ ctorOpts.scheme = "ftp"

\* The call is finished and fetch() had resolved with a response
DoneWithResponse == pc = "done" /\ response # NoResponse

\* The call is finished and fetch() had rejected
DoneWithRejection == pc = "done" /\ thrown # NoError

\* The response carries a body stream that can be read to its end
HasReadableBody(res) == ~res.bodyNull /\ res.readable

\* C2: for every response whose status is >= 400 or < 200, whatever its
\* body, exactly one error reaches the error hook and it is an HTTPError
\* with the response's status and status text, and with the body parsed as
\* JSON under a JSON content type and the raw text otherwise (null when
\* the response has no body stream).
C2_HttpErrorForFailureStatus ==
    (DoneWithResponse /\ response.readable
        /\ (response.status >= 400 \/ response.status < 200)) =>
        /\ Len(hookErr) = 1
        /\ hookErr[1].cls = "HTTPError"
        /\ hookErr[1].statusCode = { response.status }
        /\ hookErr[1].statusMessage = response.statusText
        /\ hookErr[1].body \in
             (IF response.bodyNull THEN { Null, Str("") }
              ELSE IF response.contentType = "application/json; charset=utf-8"
                   THEN { Obj(response.text) }
              ELSE { Str(response.text) })

\* C3: for every response, of any status, that has a body, declares
\* application/json and whose body is not valid JSON, no Result reaches the
\* response hook and the one error that reaches the error hook is a
\* ParseError.
C3_InvalidJsonIsParseError ==
    (DoneWithResponse /\ HasReadableBody(response)
        /\ response.contentType = "application/json; charset=utf-8"
        /\ response.text \in { "", "Invalid JSON" }) =>
        /\ hookRes = << >>
        /\ Len(hookErr) = 1
        /\ hookErr[1].cls = "ParseError"

\* C4: whenever fetch() was cancelled through its signal (a timeout signal
\* or an abort), the error handed to the error hook is a TimeoutError
\* carrying the message of the cancellation.
C4_CancellationIsTimeoutError ==
    (DoneWithRejection /\ hookErr # << >>
        /\ thrown \in { TimeoutAbort, PlainAbort }) =>
        /\ hookErr[1].cls = "TimeoutError"
        /\ hookErr[1].message = thrown.message

\* C5: when fetch() fails with a DNS-resolution or connection-refused error,
\* the error hook receives a RequestError whose method is the request
\* method and whose url is the absolute request URL.
C5_UnreachableIsRequestError ==
    (DoneWithRejection /\ thrown \in { DnsFailure, ConnRefused }) =>
        /\ Len(hookErr) = 1
        /\ hookErr[1].cls = "RequestError"
        /\ hookErr[1].method = req.method
        /\ hookErr[1].url = req.url

\* Every exchange of the call was answered with a 3xx and a Location header,
\* and the caller left the redirect handling to the client
AlwaysRedirected ==
    /\ pc = "done"
    /\ fetchOptions.redirect = { "follow" }
    /\ \/ thrown = RedirectsExceeded
       \/ /\ response # NoResponse
          /\ response.status >= 300 /\ response.status <= 399
          /\ response.location

\* C6: with maxRedirects = N and a server that answers every attempt with a
\* 3xx and a Location header, exactly N+1 exchanges occur and the call then
\* fails with a MaxRedirectsError whose redirectUrls holds the N followed
\* URLs.
C6_RedirectBudget ==
    AlwaysRedirected =>
        /\ attempts = client.maxRedirects + 1
        /\ Len(hookErr) = 1
        /\ hookErr[1].cls = "MaxRedirectsError"
        /\ Len(hookErr[1].redirectUrls) = client.maxRedirects

\* C7: a response with status in [300,400) and no Location header is not
\* followed: the call fails with an HTTPError carrying that status, after
\* the one exchange that produced it.
C7_RedirectWithoutLocation ==
    (DoneWithResponse /\ response.readable
        /\ response.status >= 300 /\ response.status <= 399
        /\ ~response.location) =>
        /\ attempts = 1 /\ fetchCalls = 1
        /\ hookRes = << >>
        /\ Len(hookErr) = 1
        /\ hookErr[1].cls = "HTTPError"
        /\ hookErr[1].statusCode = { response.status }

\* A 2xx response whose body, read to its end, is the empty string
EmptySuccess ==
    /\ DoneWithResponse
    /\ response.status >= 200 /\ response.status <= 299
    /\ response.readable /\ response.text = ""

\* The Result the claim expects for the response: its status, no body
EmptyResult == MkResult("executor", response.status, Undefined)

\* C8 as stated: every 2xx response with an empty body, whatever its
\* content type, yields a Result with the response's status and an
\* undefined body.
C8_EmptyBodyIsUndefined_AsStated ==
    EmptySuccess => hookRes = << EmptyResult >>

\* C8 as amended: a 2xx response with an empty body yields a Result with the
\* response's status and an undefined body when the response has no body
\* stream (204, HEAD) or does not declare application/json; the Result is
\* what request() resolves with unless a hook replaces it.
C8_EmptyBodyIsUndefined ==
    (EmptySuccess
        /\ (response.bodyNull
             \/ response.contentType # "application/json; charset=utf-8")) =>
        /\ hookRes = << EmptyResult >>
        /\ (outcome.kind = "returned" /\ outcome.value.from = "executor")
              => outcome.value = EmptyResult

\* C8 witness: a HEAD request answered 200 with a JSON content type resolved
\* with an undefined body
C8_Witness ==
    /\ EmptySuccess
    /\ req.method = "HEAD" /\ response.status = 200
    /\ response.contentType = "application/json; charset=utf-8"
    /\ outcome = Resolves(EmptyResult)

\* C9: requestsCount is incremented exactly once per request() call,
\* whatever the terminal outcome, so the counter equals the number of
\* finished calls.
C9_CountedOncePerCall ==
    /\ pc = "done" => Len(incLog) = 1
    /\ pc \in { "idle", "done" } => requestsTotal = started

\* The error the try block ends with when the call does not succeed
FailureOfCall ==
    IF thrown # NoError THEN thrown ELSE TryBody(response).err

\* C10: an instrument that throws while recording never changes the outcome:
\* a call whose exchange succeeded still hands its Result to the response
\* hook, and a call that failed still hands its classified error to the
\* error hook.
C10_SinkFailureIsHarmless ==
    pc = "done" =>
        IF response # NoResponse /\ ~TryBody(response).threw
        THEN /\ Len(hookRes) = 1
             /\ hookRes[1] = TryBody(response).result
        ELSE /\ Len(hookErr) = 1
             /\ hookErr[1] = Classify(FailureOfCall, req.method, req.url)

\* The exchange of the finished call failed: fetch() rejected, or the
\* response was turned into an error inside the try block
FailedCall ==
    /\ pc = "done"
    /\ \/ thrown # NoError
       \/ response # NoResponse /\ TryBody(response).threw

\* C11: on every failed call the outcome of request() is exactly what the
\* error hook produced: the default hook re-throws the error it was given,
\* an overriding hook that throws another error makes request() reject with
\* that error, and one that returns a fallback makes request() resolve with
\* that value.
C11_OutcomeIsWhatErrorHookProduces ==
    FailedCall =>
        /\ Len(hookErr) = 1
        /\ errorHook \in ErrorHooks
        /\ errorHook = "default"  => outcome = Rejects(hookErr[1])
        /\ errorHook = "throws"   => outcome = Rejects(DomainError)
        /\ errorHook = "fallback" => outcome = Resolves(Fallback)

\* C11 witness: a 404 answer whose error the overriding hook replaced by a
\* fallback value, which request() resolved with
C11_Witness ==
    /\ FailedCall
    /\ response.status = 404
    /\ errorHook = "fallback"
    /\ outcome = Resolves(Fallback)

\* The error classes of the public taxonomy
Taxonomy ==
    { "HTTPError", "ParseError", "MaxRedirectsError", "TimeoutError",
      "RequestError", "ReadError" }

\* C12: every error handed to the error hook for a failed exchange is of
\* exactly one class of the closed taxonomy; a raw transport error (the
\* TypeError of fetch(), its cause, a DOMException, a SyntaxError) is never
\* handed to the hook.
C12_HookErrorsAreTaxonomy ==
    FailedCall => \A i \in 1..Len(hookErr) : hookErr[i].cls \in Taxonomy

\* C13: every call in flight is bounded by a deadline armed at call start,
\* also when the caller passed no signal: while fetch() is pending it holds
\* a cancellation signal, so that a transport that never completes ends in
\* a rejection (and the call as failed with TimeoutError) instead of
\* pending forever.
C13_DeadlineArmed ==
    pc = "fetching" => fetchOptions.signal # {}

\* C14: after any sequence of parseUrlTemplate calls the parser has run
\* exactly once for each template string looked up; every call with the same
\* string returned the same Expander, which is the one the cache holds, so
\* no entry was evicted or replaced.
C14_ParsedOncePerTemplate ==
    \A t \in TemplateStrings :
        /\ parserCalls[t] = (IF returnedFor[t] = {} THEN 0 ELSE 1)
        /\ Cardinality(returnedFor[t]) <= 1
        /\ cache[t] = returnedFor[t]

\* C14 witness: the same template string was looked up three times, after
\* another one, and the parser ran once for each
C14_Witness ==
    /\ lookups = 4
    /\ parserCalls["/users/{id}"] = 1
    /\ parserCalls["/users{?q,page}"] = 1
    /\ parserCalls["/files{/path*}"] = 0
    /\ parserCalls["/tags{;tag}"] = 0
    /\ cache["/users/{id}"] = { 2 }

\* C15: a variable written with the explode modifier whose value is a list
\* or a map contributes one value per list item, or per map entry: the item
\* (under a key operator `name=item`) and the entry as `key=value`, each
\* joined on its own instead of one comma-joined value.
C15_ExplodeEmitsEachItem ==
    \A out \in tplOut :
        LET t == tplIn.template
            written == t.variables[1]
            value == tplIn.context[written.name]
        IN  (/\ Len(t.variables) = 1
             /\ written.modifier = Explode
             /\ value.t \in { "list", "map" }
             /\ value.items # << >>) =>
                /\ Len(out.values) = Len(value.items)
                /\ \A i \in DOMAIN value.items :
                      out.values[i] =
                          encodeValue(t.operator, value.items[i].v,
                                      IF value.t = "map" THEN value.items[i].k
                                      ELSE IF isKeyOperator(t.operator)
                                           THEN written.name
                                      ELSE << >>)

\* The prefix and the separator RFC 6570 gives each operator
RfcPrefix(operator) ==
    IF operator \in { "", "+" } THEN << >> ELSE << operator >>

RfcSeparator(operator) ==
    CASE operator \in { "", "+", "#" } -> << "," >>
      [] operator \in { "?", "&" }     -> << "&" >>
      [] OTHER                         -> << operator >>

\* Every variable of the expression is a non-empty string written without
\* modifier
AllPlainStrings ==
    \A i \in DOMAIN tplIn.template.variables :
        LET written == tplIn.template.variables[i]
        IN  /\ written.modifier = NoModifier
            /\ tplIn.context[written.name].t = "string"
            /\ tplIn.context[written.name].s # << >>

\* C16: for an expression with several defined variables the expansion is
\* the operator's RFC 6570 prefix, once, followed by the variables' values
\* joined with the operator's RFC 6570 separator.
C16_PrefixOnceAndRfcSeparator ==
    \A out \in tplOut :
        (Len(tplIn.template.variables) >= 2 /\ AllPlainStrings) =>
            out.expression =
                RfcPrefix(tplIn.template.operator)
                  \o Join(out.values, RfcSeparator(tplIn.template.operator))

\* The expansion of the template's expression without the variables that
\* do not pass Kept
ExpansionOfKept(Kept(_)) ==
    expandExpression(tplIn.template.operator,
                     SelectSeq(tplIn.template.variables, Kept),
                     tplIn.context).text

\* The one variable of a template that writes one, and its value
TheVariable == tplIn.template.variables[1]
TheValue == tplIn.context[TheVariable.name]

\* C17 as stated: for every operator a variable whose value is undefined,
\* null or the empty string leaves no trace in the expansion (no value, no
\* separator, no prefix), except that under `;` an empty string emits the
\* bare key and under `?` and `&` it emits `key=`.
C17_EmptyContributesNothing_AsStated ==
    \A out \in tplOut :
        LET operator == tplIn.template.operator
            Kept(written) ==
                LET value == tplIn.context[written.name]
                IN  \/ value \notin { CtxUndefined, CtxNull, CtxString(<< >>) }
                    \/ value = CtxString(<< >>) /\ isKeyOperator(operator)
        IN  /\ out.expression = ExpansionOfKept(Kept)
            /\ (Len(tplIn.template.variables) = 1 /\ TheValue = CtxString(<< >>)) =>
                  out.expression =
                      CASE operator = ";" -> << ";" >> \o TheVariable.name
                        [] operator \in { "?", "&" } ->
                              << operator >> \o TheVariable.name \o << "=" >>
                        [] OTHER -> << >>

\* C17 as amended: for every operator a variable whose value is undefined
\* or null leaves no trace in the expansion (no value, no separator, no
\* prefix).  An empty string is a defined value and contributes one value:
\* the bare key under `;`, `key=` under `?` and `&`, and the empty string
\* under the other operators, where the operator's prefix is still emitted.
C17_EmptyContributesNothing ==
    \A out \in tplOut :
        LET operator == tplIn.template.operator
            Kept(written) == tplIn.context[written.name] \notin { CtxUndefined, CtxNull }
        IN  /\ out.expression = ExpansionOfKept(Kept)
            /\ (\A i \in DOMAIN tplIn.template.variables :
                    ~Kept(tplIn.template.variables[i])) =>
                  out.values = << >> /\ out.expression = << >>
            /\ (Len(tplIn.template.variables) = 1 /\ TheValue = CtxString(<< >>)) =>
                  /\ out.values =
                        CASE operator = ";" -> << TheVariable.name >>
                          [] operator \in { "?", "&" } ->
                                << TheVariable.name \o << "=" >> >>
                          [] OTHER -> << << >> >>
                  /\ out.expression =
                        (IF operator = "" THEN << >> ELSE << operator >>)
                          \o out.values[1]

\* C17 witness: `{;x,y}` expanded with x the empty string and y null gave
\* `;x`
C17_Witness ==
    /\ tplIn.template.operator = ";"
    /\ Len(tplIn.template.variables) = 2
    /\ tplIn.template.variables[1].name = << "x" >>
    /\ tplIn.template.variables[2].name = << "y" >>
    /\ tplIn.context[<< "x" >>] = CtxString(<< >>)
    /\ tplIn.context[<< "y" >>] = CtxNull
    /\ \E out \in tplOut : out.expression = << ";", "x" >>

\* C18: the expanded path is always appended to the baseUrl: the path of the
\* request URL starts with the path of the baseUrl, also when the path
\* template has a leading "/".
C18_PathAppendedToBaseUrl ==
    req # NoReq =>
        /\ Len(req.url.path) >= Len(client.baseUrl.path)
        /\ SubSeq(req.url.path, 1, Len(client.baseUrl.path)) = client.baseUrl.path

\* C19: in the fetch-based client with HTTPResponseError, a response outside
\* the 2xx range makes request() call _handlerError, once, with an
\* HTTPResponseError whose status is the response's status, whose message is
\* its status text and whose response is the Response itself, and
\* _handlerResponse is not called; a value fetch() rejects with is handed to
\* _handlerError as it is.
C19_NonOkIsHTTPResponseError ==
    v2pc = "done" =>
        /\ (v2res # NoResponse /\ (v2res.status < 200 \/ v2res.status > 299)) =>
              /\ Len(v2hookErr) = 1
              /\ v2hookErr[1].kind = "HTTPResponseError"
              /\ v2hookErr[1].status = { v2res.status }
              /\ v2hookErr[1].message = v2res.statusText
              /\ v2hookErr[1].response = v2res
              /\ v2hookRes = << >>
        /\ v2thrown # NoError =>
              /\ Len(v2hookErr) = 1
              /\ v2hookErr[1].kind = "thrown"
              /\ v2hookErr[1].value = v2thrown
              /\ v2hookRes = << >>

\* C19 witness: a redirect the caller asked not to follow came back as a 301
\* and was handed to _handlerError as an HTTPResponseError
C19_Witness ==
    /\ v2pc = "done"
    /\ v2req.redirect = { "manual" }
    /\ v2res.status = 301
    /\ Len(v2hookErr) = 1
    /\ v2hookErr[1].kind = "HTTPResponseError"
    /\ v2outcome = V2Rejects(v2hookErr[1])

\* C20 as stated: one registerMetrics(registry) call issues exactly one
\* registerMetric call for each of the three instruments (requests counter,
\* request duration histogram, stage duration histogram), and nothing is
\* deduplicated: every further call with the same registry issues the same
\* three again.
C20_ThreeRegistrationsPerCall_AsStated ==
    \A r \in Registries :
        /\ Len(registerLog[r]) = 3 * registerCalls[r]
        /\ \A i \in DOMAIN registerLog[r] :
              registerLog[r][i] =
                  << requestsCount, requestDuration, requestStageDuration >>
                      [((i - 1) % 3) + 1]

\* C20 as amended: one registerMetrics(registry) call of the metrics module
\* issues exactly one registerMetric call for each of its three instruments,
\* in the order requests counter, request duration, stage duration; the
\* registerMetrics of the fetch-based client with HTTPResponseError issues
\* one for each of its two (requests counter, request duration).  Neither
\* deduplicates: every further call with the same registry issues the same
\* registrations again.
C20_RegistrationsPerCall ==
    \A r \in Registries :
        IF adapter = "metrics"
        THEN /\ Len(registerLog[r]) = 3 * registerCalls[r]
             /\ \A i \in DOMAIN registerLog[r] :
                   registerLog[r][i] =
                       << requestsCount, requestDuration, requestStageDuration >>
                           [((i - 1) % 3) + 1]
        ELSE /\ Len(registerLog[r]) = 2 * registerCalls[r]
             /\ \A i \in DOMAIN registerLog[r] :
                   registerLog[r][i] =
                       << requestsCount, requestDuration >>[((i - 1) % 2) + 1]

\* C20 witness: the metrics module's registerMetrics was called twice with
\* the same registry, which received six registrations and holds three
\* instruments
C20_Witness ==
    /\ adapter = "metrics"
    /\ registerCalls["register"] = 2
    /\ Len(registerLog["register"]) = 6
    /\ Cardinality(registered["register"]) = 3

\* C21: within one request() call fetch() is issued exactly once, at the
\* start of the call, and once fetch() has settled (resolved or rejected) no
\* further transport exchange happens for that call: no outcome triggers a
\* retry.
C21_NoRetry ==
    [][/\ fetchCalls' # fetchCalls => (started' = started + 1 /\ fetchCalls' = 1)
       /\ (pc \in { "resolved", "rejected", "done" } /\ started' = started) =>
              (attempts' = attempts /\ pc' # "fetching")]_vars

\* C21 witness: a call that failed on a refused connection is finished after
\* its one fetch() and no exchange
C21_Witness ==
    /\ pc = "done"
    /\ thrown = ConnRefused
    /\ fetchCalls = 1
    /\ attempts = 0

\* C22: for every body value the caller provides, which is every value but
\* undefined (0, false, "" and null included), fetch() receives the JSON
\* serialization of that value as body; when no body is provided fetch()
\* receives none.
C22_BodyIsJsonOfProvidedValue ==
    \A out \in foOut :
        out.body = (IF foIn.body = Undefined THEN {}
                    ELSE { JsonStringify(foIn.body) })

\* C30: the headers of every fetch() are the default Content-Type:
\* application/json, overridden key by key by the client's configured
\* headers, overridden key by key by the headers of the caller's options: a
\* configured header the caller does not override is still sent.
C30_HeadersMergedKeyByKey ==
    \A out \in foOut :
        \A h \in HeaderNames :
            out.headers[h] =
                LET caller == IF foIn.options.headers = {} THEN NoHeaders
                              ELSE CHOOSE x \in foIn.options.headers : TRUE
                IN  IF caller[h] # {} THEN caller[h]
                    ELSE IF foIn.headers[h] # {} THEN foIn.headers[h]
                    ELSE IF h = "Content-Type" THEN { "application/json" }
                    ELSE {}

\* C23: the request_duration timer is started before fetch() is called and
\* stopped only after the call reached its terminal outcome, so that the
\* histogram observes the time the exchange took: at every fetch() the timer
\* is already running, and it is never stopped before fetch() was called.
C23_TimerSpansTheExchange ==
    \A j \in DOMAIN trace :
        /\ trace[j] = "fetch" =>
               \E i \in 1..(j - 1) : trace[i] = "startTimer"
        /\ trace[j] = "stopTimer" =>
               \E i \in 1..(j - 1) : trace[i] = "fetch"

\* The calls that classify the exchange: the parsing of the response body,
\* the construction of the HTTPError, the classification of a thrown value
ClassificationCalls == { "parseResponseBody", "new HTTPError", "classify" }

HookCalls == { "_handlerResponse", "_handlerError" }

\* C24: each call runs transport, then classification (body parsing or
\* error classification), then metrics, then the hook: no hook is called
\* before the metrics of the call were recorded, and the metrics that precede
\* a hook were recorded after the outcome was classified.
C24_ClassifyThenMetricsThenHook ==
    \A k \in DOMAIN trace :
        trace[k] \in HookCalls =>
            \E m \in 1..(k - 1) :
                /\ trace[m] = "requestsCount.inc"
                /\ \E c \in 1..(m - 1) : trace[c] \in ClassificationCalls
                /\ \E f \in 1..(m - 1) : trace[f] = "fetch"

\* The value under a key of the timings recordMetrics was called with
PhaseOf(stage) ==
    IF ~smIn.given \/ smIn.phases = {} THEN NoEntry
    ELSE (CHOOSE ph \in smIn.phases : TRUE)[stage]

\* C25: the stage-duration histogram is observed exactly for the entries of
\* timings.phases whose value is a number and whose stage is not 'total',
\* once each, with the value converted from milliseconds to seconds; with no
\* timings, or no such entry, it is not observed at all.
C25_StagesObservedInSeconds ==
    \A obs \in smOut :
        /\ \A stage \in Stages :
               (\E o \in obs : o.stage = stage) <=>
                   (PhaseOf(stage).typeof = "number" /\ stage # "total")
        /\ \A o \in obs : o.seconds.num * 1000 = PhaseOf(o.stage).ms * o.seconds.den
        /\ \A o1, o2 \in obs : o1.stage = o2.stage => o1 = o2

\* A recordMetrics ran on timings with a numeric stage of 1500 ms next to a
\* numeric total and a non-numeric stage
C25_Witness ==
    /\ smOut = { { [stage |-> "firstByte", seconds |-> [num |-> 1500, den |-> 1000]] } }
    /\ PhaseOf("total").typeof = "number"
    /\ PhaseOf("dns").typeof = "undefined"

\* A value fetch() rejected with that none of the specific classifications
\* of the catch block applies to: a value that is not an Error, or an Error
\* that reaches the last return
Unclassified(error) ==
    \/ ~IsError(error)
    \/ /\ error.cls \notin { "HTTPError", "ParseError" }
       /\ ~(error.cls = "DOMException" /\ error.name = "TimeoutError")
       /\ ~(error.cls = "TypeError" /\ error.causeKind = "Error")
       /\ ~(error.causeKind # "none" /\ MentionsUnreachable(error.causeMsg))

\* C26: a failure that matches no specific classification, a thrown value
\* that is not an Error included, reaches the error hook as an error that
\* carries the message of the original failure.
C26_UnclassifiedKeepsItsMessage ==
    (pc = "done" /\ thrown # NoError /\ Unclassified(thrown)) =>
        /\ Len(hookErr) = 1
        /\ hookErr[1].message = thrown.message

\* What a call that has started saw of the client is what was configured
SawConfigured(call) ==
    /\ call.pc # "idle" =>
           /\ call.base = ccOpts.baseUrl
           /\ call.headers = Spread([NoHeaders EXCEPT
                                        !["Content-Type"] = { "application/json" }],
                                    ccOpts.headers)
    /\ call.pc = "done" => call.label = ccOpts.baseUrl

\* C27: in every interleaving of the calls in flight on one client, no step
\* of a call changes the client's baseUrl, headers or maxRedirects, so every
\* call starts with the configured maxRedirects and sees the configured
\* baseUrl and headers; a step of one call changes no local of another call,
\* and besides its own locals only the metrics instruments and the
\* parsed-template cache.
C27_CallsShareOnlyMetricsAndCache ==
    [][/\ ccClient' = ccClient
       /\ ccClient'.maxRedirects = MaxRedirectsOf(ccOpts.maxRedirects)
       /\ \A i \in Slots : SawConfigured(ccCall'[i])
       /\ \A i, j \in Slots :
              (ccCall'[i] # ccCall[i] /\ j # i) => ccCall'[j] = ccCall[j]
       /\ \A i \in Slots :
              (ccCall[i].pc = "idle" /\ ccCall'[i].pc # "idle") =>
                  ccCall'[i].hops = 0]_vars

\* Two calls in flight at once, one of them after a followed redirect, while
\* the client was configured with a redirect budget and a header
C27_Witness ==
    /\ ccCall[1].pc = "done" /\ ccCall[1].hops = 1
    /\ ccCall[2].pc = "fetching" /\ ccCall[2].hops = 0
    /\ ccOpts.maxRedirects = { 1 }
    /\ ccOpts.headers["Authorization"] # {}
    /\ ccCount = 1

\* C28: on every call exactly one of the two hooks is invoked, exactly once:
\* the response hook when fetch() resolved with a 2xx response whose body
\* was parsed, the error hook otherwise; when the response hook throws, the
\* call fails and the error hook is not invoked.
C28_ExactlyOneHookOnce ==
    pc = "done" =>
        /\ Len(hookRes) + Len(hookErr) = 1
        /\ Len(hookRes) = 1 <=>
               (response # NoResponse /\ Ok(response) /\ ~TryBody(response).threw)

\* C29: whenever fetch() resolved with a response of status S, 2xx or not,
\* requestsCount is incremented with code = S; the code -1 is recorded only
\* when no response was received.
C29_CodeIsTheResponseStatus ==
    pc = "done" =>
        /\ response # NoResponse => \E k \in DOMAIN incLog : incLog[k] = response.status
        /\ \A k \in DOMAIN incLog : incLog[k] = -1 => response = NoResponse

===========================================================================
